---- MODULE Spec2Model ----
(***************************************************************************)
(* ESP32-C3 temperature monitor (src/src/main.cpp): WiFi link supervision, *)
(* MQTT session supervision, 10 s sampling timer and publication gate.     *)
(*                                                                         *)
(* One behaviour of Spec is one boot of the device, from power-on until    *)
(* ESP.restart() (which does not return: pc = "restarted" is terminal, the *)
(* next boot is a fresh behaviour from Init).  Time is in milliseconds and *)
(* advances only where the code blocks: delay(), mqttClient.connect().     *)
(* The external collaborators (WiFi.status(), mqttClient.connect(),        *)
(* mqttClient.connected(), the sensor) answer nondeterministically.        *)
(***************************************************************************)
EXTENDS Integers, Sequences, FiniteSets, TLC

\* ---------------------------------------------------------------- constants
SAMPLE_INTERVAL == 10000
MQTT_RECONNECT_INTERVAL == 5000
WIFI_TRIES == 10
WIFI_POLL_DELAY == 1000
LOOP_DELAY == 10
DEVICE_DISCONNECTED_C == -127
\* unsigned long is 32 bits wide: the largest value below its top bit
MaxInt32 == 2147483647
MQTT_TOPIC_STATUS == "esp32/status"
MQTT_TOPIC_TEMPERATURE == "sensor3/temp"

\* ------------------------------------------------------------------- bounds
\* loop() iterations explored in one boot
MaxIter == 2
\* sampling checks explored by SpecPoll
MaxPolls == 3
\* milliseconds of running time explored by SpecWrap
WrapSpan == 40000

\* ------------------------------------------------------- environment inputs
\* extra time the loop task loses around delay(10) (scheduling, serial, radio)
Stalls == {0, 10000}
\* how long mqttClient.connect() blocks
ConnectDurations == {0, 2000}
\* failed status polls after which the link may come up in connectToWiFi
LinkUpAfter == {0, 4, WIFI_TRIES}
\* sensor readings in hundredths of a degree; -12700 is the error sentinel
Readings == {2347, DEVICE_DISCONNECTED_C * 100}
\* valid readings offered to the formatter in SpecFmt: the sensor's range,
\* -55.00 .. 125.00 degrees, in hundredths
FmtReadings == (-5500)..12500
\* SpecWrap: time between two loop() iterations, and the counter values it
\* starts from: 15 s before millis() wraps to 0 (2^32 - 15000) and 15 s before
\* its top bit sets (2^31 - 15000)
WrapSteps == {1000, 4000, 5001, 9999, 10000}
WrapBases == {0 - 15000, (MaxInt32 - 15000) + 1}
\* times offered to the sampling check in SpecPoll
PollTimes == {0, 4000, 9999, 10000, 11000, 15000, 20999, 21000, 25000}

VARIABLES
    now,                  \* millis()
    pc,                   \* "setup" | "wifi" | "loop" | "sample" | "restarted" | "poll"
    caller,               \* who called connectToWiFi: "setup" | "loop" | "none"
    trying,               \* connectToWiFi local
    currentTime,          \* loop() local, read at line 289
    lastSampleTime,
    lastReconnectAttempt,
    wifiConnected,
    mqttConnected,
    clientConnected,      \* PubSubClient's own session state
    iter,                 \* loop() iterations completed
    \* ---- observation (history) variables, never read by the program ----
    polls,                \* WiFi.status() polls made by the current connectToWiFi
    restarts,             \* calls of ESP.restart()
    wifiRet,              \* last return value of connectToWiFi: "none"|"true"|"false"
    statusAt180,          \* result of the line-180 check this iteration
    lastStatus,           \* result of the most recent WiFi.status() call
    sessionAtStart,       \* mqttConnected when this iteration began
    log,                  \* collaborator calls of this iteration (of setup before the first)
    lastAttemptAt,        \* time of the last mqttClient.connect() call, -1 if none
    attemptGap,           \* time between the last two connect() calls, -1 if < 2
    lastSampleAt,         \* real time of the last sample, -1 if none
    sampleGap,            \* real time between the last two samples, -1 if < 2
    lastTempAt,           \* real time of the last temperature publish, -1 if none
    tempGap,              \* real time between the last two, -1 if < 2
    longStalls,           \* stalls longer than SAMPLE_INTERVAL so far (capped at 2)
    sinceStall,           \* samples taken since the last long stall (capped at 2)
    pollLog               \* SpecPoll: <<time, sampled>> of each sampling check

vars == <<now, pc, caller, trying, currentTime, lastSampleTime,
          lastReconnectAttempt, wifiConnected, mqttConnected, clientConnected,
          iter, polls, restarts, wifiRet, statusAt180, lastStatus,
          sessionAtStart, log, lastAttemptAt, attemptGap, lastSampleAt,
          sampleGap, lastTempAt, tempGap, longStalls, sinceStall, pollLog>>

progVars == <<lastSampleTime, lastReconnectAttempt, wifiConnected, mqttConnected>>

\* ------------------------------------------------------------ pure helpers
\* An unsigned long u (32 bits) is held as u when u < 2^31 and as u - 2^32
\* when its top bit is set, so every counter value is a checkable integer
\* and the arithmetic below is arithmetic modulo 2^32.
\* a + d modulo 2^32, d >= 0: how millis() moves on
WrapAdd(a, d) ==
    IF a > MaxInt32 - d THEN ((a - MaxInt32) - 1) + ((d - MaxInt32) - 1)
                        ELSE a + d

\* a - b modulo 2^32
WrapSub(a, b) ==
    IF (a >= 0) = (b >= 0) THEN a - b
    ELSE LET x == IF a >= 0 THEN a - ((b + MaxInt32) + 1)
                            ELSE ((a + MaxInt32) + 1) - b
         IN  IF x < 0 THEN (x + MaxInt32) + 1 ELSE (x - MaxInt32) - 1

\* unsigned a >= b
UGeq(a, b) == IF (a >= 0) = (b >= 0) THEN a >= b ELSE a < 0

\* unsigned a > b
UGtr(a, b) == a # b /\ UGeq(a, b)

\* a subtraction guarded against "underflow": 0 when cur is below last
Elapsed_Saturating(cur, last) == IF UGeq(cur, last) THEN WrapSub(cur, last) ELSE 0

\* unsigned long subtraction, lines 201 and 299
Elapsed(cur, last) == WrapSub(cur, last)

\* a timer that also fires on its very first check
SampleDue_FirstCheck(cur, last) == last = 0 \/ UGeq(Elapsed(cur, last), SAMPLE_INTERVAL)

\* line 299
SampleDue(cur, last) == UGeq(Elapsed(cur, last), SAMPLE_INTERVAL)

\* a rate limit with its comparison turned round
ReconnectDue_Backwards(cur, last) == ~UGtr(Elapsed(cur, last), MQTT_RECONNECT_INTERVAL)

\* line 201
ReconnectDue(cur, last) == UGtr(Elapsed(cur, last), MQTT_RECONNECT_INTERVAL)

\* a timer whose stamp is refreshed on every check, due or not
SamplingStep_AlwaysStamp(cur, last) ==
    [sample |-> SampleDue(cur, last), last |-> cur]

\* lines 299-302: the sampling timer
SamplingStep(cur, last) ==
    IF SampleDue(cur, last)
    THEN [sample |-> TRUE, last |-> cur]
    ELSE [sample |-> FALSE, last |-> last]

Ev(op, topic, payload, ok, flag, reading) ==
    [op |-> op, topic |-> topic, payload |-> payload, ok |-> ok,
     flag |-> flag, reading |-> reading]

Gap(t, prev) == IF prev = -1 THEN -1 ELSE t - prev

Min2(a, b) == IF a < b THEN a ELSE b

\* ------------------------------------------------- dtostrf(x, 6, 1, payload)
DigitChar(d) ==
    CASE d = 0 -> "0" [] d = 1 -> "1" [] d = 2 -> "2" [] d = 3 -> "3"
      [] d = 4 -> "4" [] d = 5 -> "5" [] d = 6 -> "6" [] d = 7 -> "7"
      [] d = 8 -> "8" [] OTHER -> "9"

RECURSIVE NatStr(_)
NatStr(n) == IF n < 10 THEN DigitChar(n) ELSE NatStr(n \div 10) \o DigitChar(n % 10)

RECURSIVE PadLeft(_, _)
PadLeft(s, width) == IF Len(s) >= width THEN s ELSE PadLeft(" " \o s, width)

\* a dtostrf that cuts the second decimal off instead of rounding
Dtostrf1_Truncating(h, width) ==
    LET mag    == IF h < 0 THEN 0 - h ELSE h
        tenths == mag \div 10
        body   == NatStr(tenths \div 10) \o "." \o DigitChar(tenths % 10)
    IN  PadLeft(IF h < 0 THEN "-" \o body ELSE body, width)

\* reading h is in hundredths of a degree; the result has one fractional
\* digit, rounded half away from zero, right-aligned in `width` characters
Dtostrf1(h, width) ==
    LET mag    == IF h < 0 THEN 0 - h ELSE h
        tenths == (mag + 5) \div 10
        body   == NatStr(tenths \div 10) \o "." \o DigitChar(tenths % 10)
    IN  PadLeft(IF h < 0 THEN "-" \o body ELSE body, width)

\* ------------------------------------------------------------ connectToMQTT
\* a connectToMQTT that announces "online" whatever the handshake's outcome
ConnectToMQTT_AlwaysOnline(accept, flag) ==
    [mqttConnected |-> accept, ret |-> accept,
     calls |-> << Ev("connect", "", "", accept, flag, 0),
                  Ev("publish", MQTT_TOPIC_STATUS, "online", TRUE, flag, 0) >>]

\* lines 119-152.  accept: the outcome of mqttClient.connect(); flag: the
\* value of mqttConnected when the function is entered.  Yields the new
\* flag, the return value and the collaborator calls made, in order.
ConnectToMQTT(accept, flag) ==
    IF accept
    THEN [mqttConnected |-> TRUE, ret |-> TRUE,
          calls |-> << Ev("connect", "", "", TRUE, flag, 0),
                       Ev("publish", MQTT_TOPIC_STATUS, "online", TRUE, flag, 0) >>]
    ELSE [mqttConnected |-> FALSE, ret |-> FALSE,
          calls |-> << Ev("connect", "", "", FALSE, flag, 0) >>]

\* --------------------------------------------------- publishTemperatureData
\* lines 158-170
PublishTemperatureData(reading, flag) ==
    << Ev("publish", MQTT_TOPIC_TEMPERATURE, Dtostrf1(reading, 6), TRUE, flag, reading) >>

\* ------------------------------------------- loop() lines 299-328, one pass
\* a publication gate that also drops the sensor-error reading
SampleAndPublish_Validated(cur, last, reading, flag) ==
    LET st == [sample |-> SampleDue(cur, last),
               last |-> IF SampleDue(cur, last) THEN cur ELSE last]
        valid == reading # DEVICE_DISCONNECTED_C * 100
    IN  IF st.sample
        THEN [last |-> st.last, sampled |-> TRUE,
              calls |-> << Ev("sample", "", "", valid, flag, reading) >>
                        \o (IF flag /\ valid
                            THEN << Ev("publish", MQTT_TOPIC_TEMPERATURE,
                                       Dtostrf1(reading, 6), TRUE, flag, reading) >>
                            ELSE << >>)]
        ELSE [last |-> st.last, sampled |-> FALSE, calls |-> << >>]

\* a loop() without the test of line 324: every sample is published
SampleAndPublish_Ungated(cur, last, reading, flag) ==
    LET st == SamplingStep(cur, last)
    IN  IF st.sample
        THEN [last |-> st.last, sampled |-> TRUE,
              calls |-> << Ev("sample", "", "", reading # DEVICE_DISCONNECTED_C * 100,
                              flag, reading) >>
                        \o PublishTemperatureData(reading, flag)]
        ELSE [last |-> st.last, sampled |-> FALSE, calls |-> << >>]

\* a loop() that keeps the reading and publishes it again between samples
SampleAndPublish_Republish(cur, last, reading, flag) ==
    LET st == SamplingStep(cur, last)
    IN  IF st.sample
        THEN [last |-> st.last, sampled |-> TRUE,
              calls |-> << Ev("sample", "", "", reading # DEVICE_DISCONNECTED_C * 100,
                              flag, reading) >>
                        \o (IF flag THEN PublishTemperatureData(reading, flag)
                                    ELSE << >>)]
        ELSE [last |-> st.last, sampled |-> FALSE,
              calls |-> IF flag THEN PublishTemperatureData(reading, flag)
                                ELSE << >>]

\* cur: currentTime of line 289; yields the new lastSampleTime and the calls
SampleAndPublish(cur, last, reading, flag) ==
    LET st == SamplingStep(cur, last)
    IN  IF st.sample
        THEN [last |-> st.last, sampled |-> TRUE,
              calls |-> << Ev("sample", "", "", reading # DEVICE_DISCONNECTED_C * 100,
                              flag, reading) >>
                        \o (IF flag THEN PublishTemperatureData(reading, flag)
                                    ELSE << >>)]
        ELSE [last |-> st.last, sampled |-> FALSE, calls |-> << >>]

\* ------------------------------------- connectToWiFi lines 106-110, one pass
\* a countdown whose test never fires: the loop polls on
AfterFailedPoll_NoRestart(t) ==
    IF t < 0 THEN [act |-> "restart", trying |-> t]
             ELSE [act |-> "retry", trying |-> t - 1]

\* a connectToWiFi that gives up with `return false` when the budget is spent
AfterFailedPoll_ReturnFalse(t) ==
    IF t = 0 THEN [act |-> "fail", trying |-> t]
             ELSE [act |-> "retry", trying |-> t - 1]

\* what follows a failed status poll once delay(1000) is over
AfterFailedPoll(t) ==
    IF t = 0 THEN [act |-> "restart", trying |-> t]
             ELSE [act |-> "retry", trying |-> t - 1]

\* ---------------------------------------------------------------- log views
IsConnect(e)  == e.op = "connect"
IsOnline(e)   == e.op = "publish" /\ e.topic = MQTT_TOPIC_STATUS
IsTemp(e)     == e.op = "publish" /\ e.topic = MQTT_TOPIC_TEMPERATURE
IsSample(e)   == e.op = "sample"

\* a stall of `blocked` ms has just ended
StallCount(blocked) ==
    IF blocked > SAMPLE_INTERVAL THEN Min2(longStalls + 1, 2) ELSE longStalls

\* -------------------------------------------------------------------- Init
Init ==
    /\ now = 0
    /\ pc = "setup"
    /\ caller = "none"
    /\ trying = 0
    /\ currentTime = 0
    /\ lastSampleTime = 0
    /\ lastReconnectAttempt = 0
    /\ wifiConnected = FALSE
    /\ mqttConnected = FALSE
    /\ clientConnected = FALSE
    /\ iter = 0
    /\ polls = 0
    /\ restarts = 0
    /\ wifiRet = "none"
    /\ statusAt180 = "none"
    /\ lastStatus = "none"
    /\ sessionAtStart = FALSE
    /\ log = << >>
    /\ lastAttemptAt = -1
    /\ attemptGap = -1
    /\ lastSampleAt = -1
    /\ sampleGap = -1
    /\ lastTempAt = -1
    /\ tempGap = -1
    /\ longStalls = 0
    /\ sinceStall = 0
    /\ pollLog = << >>

\* ------------------------------------------------------------------ actions
\* setup() lines 230-257 and the entry of connectToWiFi, lines 91-102
Setup ==
    /\ pc = "setup"
    /\ pc' = "wifi"
    /\ caller' = "setup"
    /\ trying' = WIFI_TRIES
    /\ polls' = 0
    /\ UNCHANGED <<now, currentTime, progVars, clientConnected, iter, restarts,
                   wifiRet, statusAt180, lastStatus, sessionAtStart, log,
                   lastAttemptAt, attemptGap, lastSampleAt, sampleGap,
                   lastTempAt, tempGap, longStalls, sinceStall, pollLog>>

\* a connectToWiFi that records the link as up before it returns true
WiFiPollUp_SetsFlag ==
    /\ pc = "wifi"
    /\ polls \in LinkUpAfter
    /\ \E accept \in BOOLEAN, d \in ConnectDurations :
         LET r == ConnectToMQTT(accept, mqttConnected)
         IN  /\ mqttConnected' = r.mqttConnected
             /\ clientConnected' = accept
             /\ log' = log \o r.calls
             /\ lastAttemptAt' = now
             /\ attemptGap' = Gap(now, lastAttemptAt)
             /\ now' = now + d
    /\ wifiConnected' = TRUE
    /\ lastStatus' = "up"
    /\ polls' = polls + 1
    /\ wifiRet' = "true"
    /\ pc' = IF caller = "setup" THEN "loop" ELSE "sample"
    /\ caller' = "none"
    /\ longStalls' = IF caller = "loop" THEN StallCount(now' - currentTime)
                                        ELSE longStalls
    /\ sinceStall' = IF longStalls' # longStalls THEN 0 ELSE sinceStall
    /\ UNCHANGED <<trying, currentTime, lastSampleTime, lastReconnectAttempt,
                   iter, restarts, statusAt180, sessionAtStart,
                   lastSampleAt, sampleGap, lastTempAt, tempGap, pollLog>>

\* connectToWiFi line 103 finds the link connected and returns true (112);
\* the caller goes on: setup lines 257-269, handleMQTTConnection 187-192
WiFiPollUp ==
    /\ pc = "wifi"
    /\ polls \in LinkUpAfter
    /\ \E accept \in BOOLEAN, d \in ConnectDurations :
         LET r == ConnectToMQTT(accept, mqttConnected)
         IN  /\ mqttConnected' = r.mqttConnected
             /\ clientConnected' = accept
             /\ log' = log \o r.calls
             /\ lastAttemptAt' = now
             /\ attemptGap' = Gap(now, lastAttemptAt)
             /\ now' = now + d
    /\ lastStatus' = "up"
    /\ polls' = polls + 1
    /\ wifiRet' = "true"
    /\ pc' = IF caller = "setup" THEN "loop" ELSE "sample"
    /\ caller' = "none"
    /\ longStalls' = IF caller = "loop" THEN StallCount(now' - currentTime)
                                        ELSE longStalls
    /\ sinceStall' = IF longStalls' # longStalls THEN 0 ELSE sinceStall
    /\ UNCHANGED <<trying, currentTime, lastSampleTime, lastReconnectAttempt,
                   wifiConnected, iter, restarts, statusAt180, sessionAtStart,
                   lastSampleAt, sampleGap, lastTempAt, tempGap, pollLog>>

\* connectToWiFi lines 103-111 with the link still down: delay(1000), then
\* restart or count down.  ESP.restart() does not return.  A false return
\* value would take the caller's failure branch (setup lines 262-266).
WiFiPollDown ==
    /\ pc = "wifi"
    /\ lastStatus' = "down"
    /\ polls' = polls + 1
    /\ now' = now + WIFI_POLL_DELAY
    /\ LET a == AfterFailedPoll(trying)
       IN  /\ trying' = a.trying
           /\ restarts' = IF a.act = "restart" THEN restarts + 1 ELSE restarts
           /\ wifiRet' = IF a.act = "fail" THEN "false" ELSE wifiRet
           /\ pc' = CASE a.act = "restart" -> "restarted"
                      [] a.act = "retry"   -> "wifi"
                      [] OTHER -> IF caller = "setup" THEN "loop" ELSE "sample"
           /\ caller' = IF a.act = "fail" THEN "none" ELSE caller
           /\ log' = IF a.act = "fail" /\ caller = "setup"
                     THEN Append(log, Ev("wifi_failed", "", "", FALSE, mqttConnected, 0))
                     ELSE log
    /\ UNCHANGED <<currentTime, progVars, clientConnected, iter, statusAt180,
                   sessionAtStart, lastAttemptAt, attemptGap, lastSampleAt,
                   sampleGap, lastTempAt, tempGap, longStalls, sinceStall,
                   pollLog>>

\* handleMQTTConnection without line 198: a session found dropped leaves
\* the flag as the previous iteration set it until a retry is due
LinkUpPath_StaleFlag(status) ==
    /\ pc = "loop"
    /\ iter < MaxIter
    /\ currentTime' = now
    /\ statusAt180' = status
    /\ lastStatus' = status
    /\ sessionAtStart' = mqttConnected
    /\ \E conn \in (IF clientConnected THEN BOOLEAN ELSE {FALSE}),
          accept \in BOOLEAN, d \in ConnectDurations :
         IF conn
         THEN /\ clientConnected' = TRUE
              /\ log' = << >>
              /\ UNCHANGED <<now, mqttConnected, lastReconnectAttempt,
                             lastAttemptAt, attemptGap>>
         ELSE IF ReconnectDue(now, lastReconnectAttempt)
         THEN LET r == ConnectToMQTT(accept, mqttConnected)
              IN  /\ lastReconnectAttempt' = now
                  /\ mqttConnected' = r.mqttConnected
                  /\ clientConnected' = accept
                  /\ log' = r.calls
                  /\ lastAttemptAt' = now
                  /\ attemptGap' = Gap(now, lastAttemptAt)
                  /\ now' = now + d
         ELSE /\ clientConnected' = FALSE
              /\ log' = << >>
              /\ UNCHANGED <<now, mqttConnected, lastReconnectAttempt,
                             lastAttemptAt, attemptGap>>
    /\ pc' = "sample"
    /\ longStalls' = StallCount(now' - currentTime')
    /\ sinceStall' = IF longStalls' # longStalls THEN 0 ELSE sinceStall
    /\ UNCHANGED <<caller, trying, lastSampleTime, wifiConnected, iter, polls,
                   restarts, wifiRet, lastSampleAt, sampleGap, lastTempAt,
                   tempGap, pollLog>>

\* loop() line 289 and handleMQTTConnection lines 177-180, 195-216 with the
\* link up.  conn: the answer of mqttClient.connected() (a session the
\* client holds may have dropped; one it does not hold is down).
LinkUpPath(status) ==
    /\ pc = "loop"
    /\ iter < MaxIter
    /\ currentTime' = now
    /\ statusAt180' = status
    /\ lastStatus' = status
    /\ sessionAtStart' = mqttConnected
    /\ \E conn \in (IF clientConnected THEN BOOLEAN ELSE {FALSE}),
          accept \in BOOLEAN, d \in ConnectDurations :
         IF conn
         THEN /\ clientConnected' = TRUE
              /\ log' = << >>
              /\ UNCHANGED <<now, mqttConnected, lastReconnectAttempt,
                             lastAttemptAt, attemptGap>>
         ELSE IF ReconnectDue(now, lastReconnectAttempt)
         THEN LET r == ConnectToMQTT(accept, FALSE)
              IN  /\ lastReconnectAttempt' = now
                  /\ mqttConnected' = r.mqttConnected
                  /\ clientConnected' = accept
                  /\ log' = r.calls
                  /\ lastAttemptAt' = now
                  /\ attemptGap' = Gap(now, lastAttemptAt)
                  /\ now' = now + d
         ELSE /\ mqttConnected' = FALSE
              /\ clientConnected' = FALSE
              /\ log' = << >>
              /\ UNCHANGED <<now, lastReconnectAttempt, lastAttemptAt, attemptGap>>
    /\ pc' = "sample"
    /\ longStalls' = StallCount(now' - currentTime')
    /\ sinceStall' = IF longStalls' # longStalls THEN 0 ELSE sinceStall
    /\ UNCHANGED <<caller, trying, lastSampleTime, wifiConnected, iter, polls,
                   restarts, wifiRet, lastSampleAt, sampleGap, lastTempAt,
                   tempGap, pollLog>>

LoopLinkUp == LinkUpPath("up")

\* handleMQTTConnection without the early return of lines 180-193: a link
\* found down is handled like a link found up
LoopLinkDown_Unchecked == LinkUpPath("down")

\* handleMQTTConnection without line 183: the session flag survives the drop
LoopLinkDown_FlagKept ==
    /\ pc = "loop"
    /\ iter < MaxIter
    /\ currentTime' = now
    /\ statusAt180' = "down"
    /\ lastStatus' = "down"
    /\ sessionAtStart' = mqttConnected
    /\ wifiConnected' = FALSE
    /\ log' = << >>
    /\ pc' = "wifi"
    /\ caller' = "loop"
    /\ trying' = WIFI_TRIES
    /\ polls' = 0
    /\ UNCHANGED <<now, mqttConnected, lastSampleTime, lastReconnectAttempt,
                   clientConnected, iter, restarts, wifiRet, lastAttemptAt,
                   attemptGap, lastSampleAt, sampleGap, lastTempAt, tempGap,
                   longStalls, sinceStall, pollLog>>

\* loop() line 289, handleMQTTConnection lines 177-187 with the link down,
\* and the entry of connectToWiFi, lines 91-102
LoopLinkDown ==
    /\ pc = "loop"
    /\ iter < MaxIter
    /\ currentTime' = now
    /\ statusAt180' = "down"
    /\ lastStatus' = "down"
    /\ sessionAtStart' = mqttConnected
    /\ wifiConnected' = FALSE
    /\ mqttConnected' = FALSE
    /\ log' = << >>
    /\ pc' = "wifi"
    /\ caller' = "loop"
    /\ trying' = WIFI_TRIES
    /\ polls' = 0
    /\ UNCHANGED <<now, lastSampleTime, lastReconnectAttempt, clientConnected,
                   iter, restarts, wifiRet, lastAttemptAt, attemptGap,
                   lastSampleAt, sampleGap, lastTempAt, tempGap, longStalls,
                   sinceStall, pollLog>>

\* loop() lines 296-329: the sampling timer, the sensor read, the publication
\* gate and delay(10)
Sample ==
    /\ pc = "sample"
    /\ \E reading \in Readings, stall \in Stalls :
         LET r == SampleAndPublish(currentTime, lastSampleTime, reading, mqttConnected)
             published == \E i \in 1..Len(r.calls) : IsTemp(r.calls[i])
         IN  /\ lastSampleTime' = r.last
             /\ log' = log \o r.calls
             /\ lastSampleAt' = IF r.sampled THEN now ELSE lastSampleAt
             /\ sampleGap' = IF r.sampled THEN Gap(now, lastSampleAt) ELSE sampleGap
             /\ lastTempAt' = IF published THEN now ELSE lastTempAt
             /\ tempGap' = IF published THEN Gap(now, lastTempAt) ELSE tempGap
             /\ now' = now + LOOP_DELAY + stall
             /\ longStalls' = StallCount(LOOP_DELAY + stall)
             /\ sinceStall' = IF longStalls' # longStalls THEN 0
                              ELSE IF r.sampled THEN Min2(sinceStall + 1, 2)
                              ELSE sinceStall
    /\ iter' = iter + 1
    /\ pc' = "loop"
    /\ UNCHANGED <<caller, trying, currentTime, lastReconnectAttempt,
                   wifiConnected, mqttConnected, clientConnected, polls,
                   restarts, wifiRet, statusAt180, lastStatus, sessionAtStart,
                   lastAttemptAt, attemptGap, pollLog>>

Next == Setup \/ WiFiPollUp \/ WiFiPollDown \/ LoopLinkDown \/ LoopLinkUp \/ Sample

Spec == Init /\ [][Next]_vars

\* the Arduino runtime calls setup() once and then loop() for ever, and every
\* blocking call returns: a step that can be taken is eventually taken
SpecFair == Init /\ [][Next]_vars /\ WF_vars(Next)

\* ------------------------------------------ the sampling timer on its own
\* a freshly started timer (lastSampleTime = 0, line 49) offered sampling
\* checks at strictly increasing times
PollInit ==
    /\ pc = "poll"
    /\ now = 0
    /\ caller = "none"
    /\ trying = 0
    /\ currentTime = 0
    /\ lastSampleTime = 0
    /\ lastReconnectAttempt = 0
    /\ wifiConnected = FALSE
    /\ mqttConnected = FALSE
    /\ clientConnected = FALSE
    /\ iter = 0
    /\ polls = 0
    /\ restarts = 0
    /\ wifiRet = "none"
    /\ statusAt180 = "none"
    /\ lastStatus = "none"
    /\ sessionAtStart = FALSE
    /\ log = << >>
    /\ lastAttemptAt = -1
    /\ attemptGap = -1
    /\ lastSampleAt = -1
    /\ sampleGap = -1
    /\ lastTempAt = -1
    /\ tempGap = -1
    /\ longStalls = 0
    /\ sinceStall = 0
    /\ pollLog = << >>

\* loop() lines 289 and 299-302 at time t
Poll ==
    /\ pc = "poll"
    /\ Len(pollLog) < MaxPolls
    /\ \E t \in PollTimes :
         /\ pollLog = << >> \/ t > now
         /\ now' = t
         /\ currentTime' = t
         /\ LET st == SamplingStep(t, lastSampleTime)
            IN  /\ lastSampleTime' = st.last
                /\ pollLog' = Append(pollLog, <<t, st.sample>>)
    /\ UNCHANGED <<pc, caller, trying, lastReconnectAttempt, wifiConnected,
                   mqttConnected, clientConnected, iter, polls, restarts,
                   wifiRet, statusAt180, lastStatus, sessionAtStart, log,
                   lastAttemptAt, attemptGap, lastSampleAt, sampleGap,
                   lastTempAt, tempGap, longStalls, sinceStall>>

PollNext == Poll

SpecPoll == PollInit /\ [][PollNext]_vars

\* ------------------------------------------------ the formatter on its own
\* a valid sample has just been read while the session is Up
FmtInit ==
    /\ pc = "fmt"
    /\ \E h \in FmtReadings : log = << Ev("sample", "", "", TRUE, TRUE, h) >>
    /\ now = 0
    /\ caller = "none"
    /\ trying = 0
    /\ currentTime = 0
    /\ lastSampleTime = 0
    /\ lastReconnectAttempt = 0
    /\ wifiConnected = FALSE
    /\ mqttConnected = TRUE
    /\ clientConnected = TRUE
    /\ iter = 0
    /\ polls = 0
    /\ restarts = 0
    /\ wifiRet = "none"
    /\ statusAt180 = "none"
    /\ lastStatus = "none"
    /\ sessionAtStart = FALSE
    /\ lastAttemptAt = -1
    /\ attemptGap = -1
    /\ lastSampleAt = -1
    /\ sampleGap = -1
    /\ lastTempAt = -1
    /\ tempGap = -1
    /\ longStalls = 0
    /\ sinceStall = 0
    /\ pollLog = << >>

\* loop() line 326: publishTemperatureData(currentTemp)
Format ==
    /\ pc = "fmt"
    /\ pc' = "fmt_done"
    /\ log' = log \o PublishTemperatureData(log[1].reading, mqttConnected)
    /\ UNCHANGED <<now, caller, trying, currentTime, progVars, clientConnected,
                   iter, polls, restarts, wifiRet, statusAt180, lastStatus,
                   sessionAtStart, lastAttemptAt, attemptGap, lastSampleAt,
                   sampleGap, lastTempAt, tempGap, longStalls, sinceStall,
                   pollLog>>

FmtNext == Format

SpecFmt == FmtInit /\ [][FmtNext]_vars

\* ------------------------------------------- the two timers across a wrap
\* loop() iterating with the link up and the broker refusing every
\* handshake, started with both stamps just taken.  currentTime is the
\* millis() counter (32 bits), now the time truly run since the start.
WrapInit ==
    /\ pc = "wrap"
    /\ currentTime \in WrapBases
    /\ lastSampleTime = currentTime
    /\ lastReconnectAttempt = currentTime
    /\ now = 0
    /\ lastSampleAt = 0
    /\ lastAttemptAt = 0
    /\ caller = "none"
    /\ trying = 0
    /\ wifiConnected = FALSE
    /\ mqttConnected = FALSE
    /\ clientConnected = FALSE
    /\ iter = 0
    /\ polls = 0
    /\ restarts = 0
    /\ wifiRet = "none"
    /\ statusAt180 = "none"
    /\ lastStatus = "none"
    /\ sessionAtStart = FALSE
    /\ log = << >>
    /\ attemptGap = -1
    /\ sampleGap = -1
    /\ lastTempAt = -1
    /\ tempGap = -1
    /\ longStalls = 0
    /\ sinceStall = 0
    /\ pollLog = << >>

\* loop() lines 289, 201-203 and 299-302, d ms after the previous iteration
WrapTick ==
    /\ pc = "wrap"
    /\ \E d \in WrapSteps :
         /\ now + d <= WrapSpan
         /\ now' = now + d
         /\ currentTime' = WrapAdd(currentTime, d)
         /\ LET st  == SamplingStep(currentTime', lastSampleTime)
                due == ReconnectDue(currentTime', lastReconnectAttempt)
            IN  /\ lastSampleTime' = st.last
                /\ lastReconnectAttempt' =
                       IF due THEN currentTime' ELSE lastReconnectAttempt
                /\ lastSampleAt' = IF st.sample THEN now' ELSE lastSampleAt
                /\ lastAttemptAt' = IF due THEN now' ELSE lastAttemptAt
                /\ pollLog' = << [cur |-> currentTime', prev |-> lastSampleTime,
                                  sampled |-> st.sample,
                                  sinceSample |-> now' - lastSampleAt,
                                  attempted |-> due,
                                  sinceAttempt |-> now' - lastAttemptAt] >>
    /\ UNCHANGED <<pc, caller, trying, wifiConnected, mqttConnected,
                   clientConnected, iter, polls, restarts, wifiRet,
                   statusAt180, lastStatus, sessionAtStart, log, attemptGap,
                   sampleGap, lastTempAt, tempGap, longStalls, sinceStall>>

WrapNext == WrapTick

SpecWrap == WrapInit /\ [][WrapNext]_vars

\* =================================================================== claims
AtPublishDecision == pc = "sample"
Handshakes == {i \in 1..Len(log) : IsConnect(log[i])}
Publishes == {i \in 1..Len(log) : log[i].op = "publish"}
\* connectToWiFi has spent its whole budget of status polls
GaveUp == pc # "wifi" /\ lastStatus = "down" /\ polls = WIFI_TRIES + 1

\* C1 (as stated): whenever mqttConnected is true at the publish decision of
\* line 324, the WiFi status check of line 180 of the same iteration found the
\* link connected.
C1_UpOnlyIfLine180Up ==
    (AtPublishDecision /\ mqttConnected) => statusAt180 = "up"

\* C1 (amended): whenever mqttConnected is true at the publish decision of
\* line 324, the most recent WiFi status check of the same iteration (line
\* 180, or the last poll of connectToWiFi at line 103) found the link
\* connected, and if the line-180 check found it down the flag comes from a
\* handshake that succeeded later in this iteration.
C1_UpOnlyIfLastCheckUp ==
    (AtPublishDecision /\ mqttConnected) =>
        /\ lastStatus = "up"
        /\ statusAt180 = "down" => \E i \in Handshakes : log[i].ok

C1_Witness ==
    /\ AtPublishDecision /\ mqttConnected
    /\ statusAt180 = "down" /\ lastStatus = "up"

\* C2 (as stated): an iteration that finds the link down while the session
\* was Up forces the session Down and does nothing further: no handshake and
\* no publish (neither "online" nor a temperature) before the iteration ends.
C2_LinkDownIterationIdle ==
    (statusAt180 = "down" /\ sessionAtStart) =>
        /\ ~mqttConnected
        /\ Handshakes = {}
        /\ Publishes = {}

\* C2 (amended): an iteration that finds the link down while the session was
\* Up forces the session Down at once and makes no handshake and no publish
\* while it waits for the link in connectToWiFi; once the link is back it
\* makes exactly one handshake, the session flag is that handshake's outcome,
\* and anything published in the iteration follows a successful handshake.
C2_LinkDownIterationRecovers ==
    (statusAt180 = "down" /\ sessionAtStart) =>
        /\ pc \in {"wifi", "restarted"} =>
              ~mqttConnected /\ ~wifiConnected /\ log = << >>
        /\ pc \in {"sample", "loop"} =>
              /\ Cardinality(Handshakes) = 1
              /\ IsConnect(log[1])
              /\ mqttConnected = log[1].ok
              /\ Publishes # {} => log[1].ok

C2_Witness ==
    /\ statusAt180 = "down" /\ sessionAtStart
    /\ pc = "loop"
    /\ \E i \in Publishes : IsOnline(log[i])
    /\ \E i \in Publishes : IsTemp(log[i])

\* C3: any two consecutive broker handshake attempts (from setup, the WiFi
\* recovery path or the rate-limited retry path) are at least
\* MQTT_RECONNECT_INTERVAL apart.
C3_AttemptsSpaced ==
    attemptGap # -1 => attemptGap >= MQTT_RECONNECT_INTERVAL

\* C4 (as stated): for every sample taken, a temperature publish is attempted
\* if and only if the session is Up and the sample is valid; a sensor-error
\* sample taken while the session is Up is not published.
C4_PublishIffUpAndValid ==
    \A i \in 1..Len(log) :
        IsSample(log[i]) =>
            ((i < Len(log) /\ IsTemp(log[i + 1])) <=> (log[i].flag /\ log[i].ok))

\* C4 (amended): for every sample taken, a temperature publish is attempted
\* if and only if the session flag is true at line 324, whether or not the
\* sample is valid; the sensor-error value is published like any reading, and
\* every temperature publish carries the reading sampled just before it.
C4_PublishIffUp ==
    /\ \A i \in 1..Len(log) :
          IsSample(log[i]) =>
              ((i < Len(log) /\ IsTemp(log[i + 1])) <=> log[i].flag)
    /\ \A i \in 1..Len(log) :
          IsTemp(log[i]) =>
              /\ i > 1 /\ IsSample(log[i - 1])
              /\ log[i].reading = log[i - 1].reading

C4_Witness ==
    \E i \in 1..Len(log) :
        /\ IsSample(log[i]) /\ ~log[i].ok /\ log[i].flag
        /\ i < Len(log) /\ IsTemp(log[i + 1])
        /\ log[i + 1].reading = DEVICE_DISCONNECTED_C * 100

\* C5: after a single stall longer than SAMPLE_INTERVAL, wherever in the
\* iteration it occurs, exactly one sample is taken on resume: the second
\* sample after the stall comes a full SAMPLE_INTERVAL after the first.
C5_NoCatchUpBurst ==
    (longStalls = 1 /\ sinceStall = 2) => sampleGap >= SAMPLE_INTERVAL

\* C6: any two consecutive temperature publications are at least
\* SAMPLE_INTERVAL of real time apart, measured when each is issued.
C6_TempPublishSpaced ==
    tempGap # -1 => tempGap >= SAMPLE_INTERVAL

\* the sampling checks of scenario C, and the log being on that scenario
ScenarioTimes == <<0, 4000, 11000>>
OnScenario ==
    /\ Len(pollLog) <= Len(ScenarioTimes)
    /\ \A i \in 1..Len(pollLog) : pollLog[i][1] = ScenarioTimes[i]

\* C7 (as stated): with a freshly started timer, sampling checks at t = 0,
\* 4000 and 11000 produce a sample at t = 0 and at t = 11000, none at 4000.
C7_ScenarioC ==
    OnScenario =>
        \A i \in 1..Len(pollLog) : pollLog[i][2] = <<TRUE, FALSE, TRUE>>[i]

\* C7 (amended): with a freshly started timer (lastSampleTime = 0), sampling
\* checks at t = 0, 4000 and 11000 produce a sample at t = 11000 only: none
\* at t = 0 and none at t = 4000.
C7_ScenarioC_FirstAfterInterval ==
    OnScenario =>
        \A i \in 1..Len(pollLog) : pollLog[i][2] = <<FALSE, FALSE, TRUE>>[i]

C7_Witness ==
    /\ OnScenario /\ Len(pollLog) = 3
    /\ lastSampleTime = 11000

\* C8: in connectToWiFi, once the bound of consecutive failed status polls is
\* reached ESP.restart is triggered exactly once and nothing is polled or
\* attempted afterwards; the wait loop makes at most WIFI_TRIES + 1 polls.
C8_RestartOnceNoSpin ==
    /\ [](/\ restarts <= 1
          /\ polls <= WIFI_TRIES + 1
          /\ pc = "wifi" => trying + polls = WIFI_TRIES
          /\ restarts = 1 <=> pc = "restarted"
          /\ pc = "restarted" => polls = WIFI_TRIES + 1 /\ lastStatus = "down")
    /\ [][pc = "restarted" =>
            /\ pc' = "restarted"
            /\ polls' = polls /\ restarts' = restarts
            /\ lastAttemptAt' = lastAttemptAt /\ log' = log]_vars

C8_Witness ==
    /\ pc = "restarted" /\ restarts = 1
    /\ polls = WIFI_TRIES + 1 /\ trying = 0

\* C9 (as stated): when the link cannot be brought up, connectToWiFi returns
\* false, so that the caller's failure branch is taken.
C9_FailureReturned ==
    GaveUp => wifiRet = "false"

\* C9 (amended): connectToWiFi never returns false: it returns true, and only
\* after a status poll found the link connected; when the link cannot be
\* brought up within the budget it does not return at all (ESP.restart), so
\* the failure branch of setup is never taken.
C9_NeverReturnsFalse ==
    /\ wifiRet # "false"
    /\ \A i \in 1..Len(log) : log[i].op # "wifi_failed"
    /\ GaveUp => pc = "restarted"
    /\ pc \in {"loop", "sample"} => wifiRet = "true" /\ lastStatus = "up"

C9_Witness ==
    /\ GaveUp /\ pc = "restarted"
    /\ caller = "setup" /\ wifiRet = "none"

\* C10: each successful broker handshake is followed by exactly one
\* publication of "online" on the status channel, and "online" is published
\* at no other time: never after a failed handshake, never twice.
C10_OnlineOncePerHandshake ==
    /\ \A i \in 1..Len(log) :
          (IsConnect(log[i]) /\ log[i].ok) =>
              /\ i < Len(log) /\ IsOnline(log[i + 1])
              /\ log[i + 1].payload = "online"
    /\ \A i \in 1..Len(log) :
          (IsOnline(log[i]) \/ log[i].payload = "online") =>
              /\ IsOnline(log[i]) /\ log[i].payload = "online"
              /\ i > 1 /\ IsConnect(log[i - 1]) /\ log[i - 1].ok

C10_Witness ==
    /\ statusAt180 = "up" /\ iter >= 1
    /\ \E i \in 1..Len(log) :
          /\ IsConnect(log[i]) /\ log[i].ok
          /\ i < Len(log) /\ IsOnline(log[i + 1])
    /\ \E i \in 1..Len(log) : IsTemp(log[i])

\* C13 (as stated): no message of any kind is sent while the session flag
\* is not Up: at every mqttClient.publish call mqttConnected is already true.
C13_PublishOnlyWhenFlagUp ==
    \A i \in Publishes : log[i].flag

\* C13 (amended): every temperature publish is made with mqttConnected
\* already true; the "online" status publish is made right after a successful
\* mqttClient.connect() and before the flag is set, so the flag is still
\* false at that call.
C13_TempWhenFlagUpOnlineBefore ==
    \A i \in Publishes :
        /\ IsTemp(log[i]) => log[i].flag
        /\ IsOnline(log[i]) =>
              /\ ~log[i].flag
              /\ i > 1 /\ IsConnect(log[i - 1]) /\ log[i - 1].ok

C13_Witness ==
    /\ \E i \in Publishes : IsOnline(log[i]) /\ ~log[i].flag
    /\ \E i \in Publishes : IsTemp(log[i]) /\ log[i].flag
    /\ mqttConnected

\* C14: readings are never buffered: each sample is published at most once
\* and only in the iteration that took it (right after the read, at the same
\* time); a sample taken while the session is not Up is never published.
C14_NoBufferedReadings ==
    /\ Cardinality({i \in Publishes : IsTemp(log[i])}) <= 1
    /\ \A i \in Publishes :
          IsTemp(log[i]) =>
              /\ i > 1 /\ IsSample(log[i - 1])
              /\ log[i - 1].flag
              /\ log[i].reading = log[i - 1].reading
              /\ lastTempAt = lastSampleAt
    /\ \A i \in 1..Len(log) :
          (IsSample(log[i]) /\ ~log[i].flag) =>
              \A j \in Publishes : ~IsTemp(log[j])
    /\ lastTempAt <= lastSampleAt

C14_Witness ==
    /\ pc = "loop" /\ iter = 2
    /\ mqttConnected
    /\ lastSampleAt # -1
    /\ lastTempAt = -1
    /\ \A i \in 1..Len(log) : ~IsSample(log[i])

\* C15: within an iteration the link check comes before the session check and
\* the session check before the publish decision, and the mqttConnected read
\* at line 324 equals the broker-client status that this iteration's
\* handleMQTTConnection observed or established.
C15_FreshSessionState ==
    /\ [](AtPublishDecision =>
            /\ statusAt180 \in {"up", "down"}
            /\ lastStatus = "up"
            /\ mqttConnected = clientConnected
            /\ \A i \in Handshakes : log[i].ok = mqttConnected)
    /\ [][/\ pc' = "sample" => pc \in {"loop", "wifi"}
          /\ pc = "loop" /\ pc' # "loop" => statusAt180' \in {"up", "down"}
          /\ pc = "sample" /\ pc' # "sample" => mqttConnected' = mqttConnected]_vars

C15_Witness ==
    /\ AtPublishDecision
    /\ sessionAtStart /\ ~mqttConnected
    /\ statusAt180 = "up" /\ Handshakes = {}

\* C17: connectToWiFi waits 10 seconds before rebooting: with the link never
\* up, ESP.restart is called after exactly 10 failed status polls, each
\* followed by one delay(1000).
C17_RestartAfterTenDelays ==
    pc = "restarted" => polls = WIFI_TRIES

\* C18: timers and flags change only in their owning step: the connectivity
\* step (setup, handleMQTTConnection, connectToWiFi, connectToMQTT) leaves
\* lastSampleTime alone; the sampling step leaves lastReconnectAttempt,
\* mqttConnected and wifiConnected alone, and leaves lastSampleTime alone
\* when the sampling interval has not elapsed.
C18_OwnedState ==
    [][/\ pc \in {"setup", "wifi", "loop"} => lastSampleTime' = lastSampleTime
       /\ pc = "sample" =>
             /\ lastReconnectAttempt' = lastReconnectAttempt
             /\ mqttConnected' = mqttConnected
             /\ wifiConnected' = wifiConnected
             /\ ~(currentTime - lastSampleTime >= SAMPLE_INTERVAL) =>
                   lastSampleTime' = lastSampleTime]_vars

C18_Witness ==
    /\ pc = "loop" /\ iter = 2
    /\ lastSampleTime > 0
    /\ currentTime > lastSampleTime
    /\ lastReconnectAttempt > lastSampleTime

\* C20: the link flag wifiConnected is false in every reachable state (no
\* operation ever sets it), also while mqttConnected is true.
C20_WifiFlagNeverSet ==
    wifiConnected = FALSE

C20_Witness ==
    /\ mqttConnected /\ ~wifiConnected
    /\ lastStatus = "up" /\ wifiRet = "true"
    /\ statusAt180 = "down"

\* ---- reading a payload back (what a subscriber's atof does)
CharAt(s, i) == SubSeq(s, i, i)
DigitVal(c) ==
    CASE c = "0" -> 0 [] c = "1" -> 1 [] c = "2" -> 2 [] c = "3" -> 3
      [] c = "4" -> 4 [] c = "5" -> 5 [] c = "6" -> 6 [] c = "7" -> 7
      [] c = "8" -> 8 [] c = "9" -> 9 [] OTHER -> -1
RECURSIVE SkipBlanks(_)
SkipBlanks(s) ==
    IF Len(s) > 0 /\ CharAt(s, 1) = " " THEN SkipBlanks(SubSeq(s, 2, Len(s))) ELSE s
RECURSIVE DigitsVal(_, _)
DigitsVal(s, acc) ==
    IF Len(s) = 0 THEN acc
    ELSE DigitsVal(SubSeq(s, 2, Len(s)), 10 * acc + DigitVal(CharAt(s, 1)))
\* "ddd.d" with an optional sign: well-formed, sign, magnitude in tenths
ParsePlain(s) ==
    LET neg  == Len(s) > 0 /\ CharAt(s, 1) = "-"
        body == IF neg THEN SubSeq(s, 2, Len(s)) ELSE s
        n    == Len(body)
        ok   == /\ n >= 3
                /\ CharAt(body, n - 1) = "."
                /\ DigitVal(CharAt(body, n)) >= 0
                /\ \A i \in 1..(n - 2) : DigitVal(CharAt(body, i)) >= 0
    IN  [ok |-> ok, neg |-> neg,
         tenths |-> IF ok THEN 10 * DigitsVal(SubSeq(body, 1, n - 2), 0)
                               + DigitVal(CharAt(body, n))
                          ELSE -1]
Abs(h) == IF h < 0 THEN 0 - h ELSE h
\* t tenths is h hundredths rounded to one decimal, halves away from zero
RoundsTo(h, t) == 10 * t - 5 <= Abs(h) /\ Abs(h) <= 10 * t + 4
Formatted == pc = "fmt_done"

\* C16 (as stated): the temperature payload is the reading rounded to one
\* decimal place, written as a plain decimal string with exactly one
\* fractional digit and nothing else (23.47 is published as "23.5").
C16_PlainOneDecimal ==
    Formatted =>
        LET p == ParsePlain(log[2].payload)
        IN  /\ p.ok
            /\ RoundsTo(log[2].reading, p.tenths)
            /\ log[2].reading = 2347 => log[2].payload = "23.5"

\* C16 (amended): the temperature payload is the reading rounded to one
\* decimal place, written with exactly one fractional digit and right-aligned
\* in a field of 6 characters, padded with leading blanks (23.47 is published
\* as "  23.5"); re-parsing it, leading blanks skipped, yields the rounded
\* reading.
C16_PaddedOneDecimal ==
    Formatted =>
        LET p == ParsePlain(SkipBlanks(log[2].payload))
        IN  /\ Len(log[2].payload) = 6
            /\ p.ok
            /\ p.neg <=> log[2].reading < 0
            /\ RoundsTo(log[2].reading, p.tenths)
            /\ log[2].reading = 2347 =>
                  log[2].payload = "  23.5" /\ p.tenths = 235

C16_Witness ==
    /\ Formatted
    /\ log[1].reading = 2347
    /\ log[2].payload = "  23.5"

\* C19: the millisecond counter wrapping modulo 2^32 does not break the
\* timers: across the wrap a sample is taken exactly when at least
\* SAMPLE_INTERVAL ms have truly elapsed since the last one, and a reconnect
\* is attempted exactly when more than MQTT_RECONNECT_INTERVAL ms have truly
\* elapsed since the last attempt (no stall, no burst).
C19_TimersSurviveWrap ==
    \A i \in 1..Len(pollLog) :
        /\ pollLog[i].sampled <=> pollLog[i].sinceSample >= SAMPLE_INTERVAL
        /\ pollLog[i].attempted <=> pollLog[i].sinceAttempt > MQTT_RECONNECT_INTERVAL

\* a sample taken just after the counter wrapped to 0, timed from a stamp
\* taken before the wrap
C19_Witness ==
    /\ pc = "wrap" /\ Len(pollLog) = 1
    /\ pollLog[1].sampled /\ pollLog[1].attempted
    /\ pollLog[1].prev < 0 /\ pollLog[1].prev > 0 - 15000
    /\ pollLog[1].cur >= 0 /\ pollLog[1].cur < SAMPLE_INTERVAL

\* an iteration is about to start with the session down and more than
\* MQTT_RECONNECT_INTERVAL gone since the last rate-limited attempt
RetryPending ==
    /\ pc = "loop" /\ iter < MaxIter
    /\ ~clientConnected
    /\ now - lastReconnectAttempt > MQTT_RECONNECT_INTERVAL
\* this iteration found the link up and made a handshake attempt
RetryMade ==
    /\ pc = "sample" /\ statusAt180 = "up"
    /\ Handshakes # {}
    /\ lastAttemptAt = currentTime
\* this iteration found the link down
LinkLost == pc = "wifi" /\ caller = "loop"

C12_LinkDownDoesNotBlockSampling ==
    pc = "restarted" => now - lastSampleTime < SAMPLE_INTERVAL

====
